---- MODULE Spec2Model ----
(***************************************************************************)
(* Ring buffer engine of Disen-Shaw/RingBuffer, in its three restatements: *)
(*   generic_fifo  (generic_fifo.h, modulo arithmetic, uint32_t cursors)    *)
(*   gfifo         (gfifo.h, mask arithmetic, unsigned int cursors)         *)
(*   CircularFifo  (CircularFifo.cs, modulo arithmetic, uint cursors)       *)
(* Every macro / method is a pure operator on the structure it works on;    *)
(* every action applies one of them to the buffer under test and records    *)
(* what the caller observes (return value, output variable, output array).  *)
(***************************************************************************)
EXTENDS Integers, Sequences, FiniteSets, TLC

\* Largest number of storage slots a buffer under test is bound to.
MaxSize == 4
\* Element values are 0..MaxVal; 0 is default(T) of the C# restatement.
MaxVal == 1

\* Largest slot count of a gfifo bound to a size that is not a power of two.
MaxBadSize == 6
\* An undefined remainder (division by zero) yields a number in 0..MaxRem.
MaxRem == 1
\* Successful calls on a generic_fifo of size 0 are followed while the inserts
\* and the removes differ by at most MaxNet.
MaxNet == 2
\* Storage regions handed to generic_fifo_init in the life of one structure.
MaxRegions == 2

Values == 0 .. MaxVal
\* what the observation variables hold when the call has no such argument
NoVal == 0 - 1

(***************************************************************************)
(* 32-bit unsigned arithmetic.  A uint32_t / unsigned int / uint value is   *)
(* kept as two 16-bit halves [hi, lo], so that in - out wrapping below 0    *)
(* is computed as the machine computes it.                                  *)
(***************************************************************************)
U32(n) == [hi |-> (n \div 65536) % 65536, lo |-> n % 65536]

u32_add(a, b) ==
  LET lo == a.lo + b.lo
  IN  [hi |-> (a.hi + b.hi + (lo \div 65536)) % 65536, lo |-> lo % 65536]

u32_sub(a, b) ==
  LET lo == a.lo - b.lo
      borrow == IF lo < 0 THEN 1 ELSE 0
  IN  [hi |-> (a.hi - b.hi - borrow) % 65536, lo |-> lo % 65536]

\* a % m for a 32-bit a and a slot count m in 1..32767
u32_mod(a, m) == ((a.hi % m) * (65536 % m) + (a.lo % m)) % m

RECURSIVE BitAnd(_, _)
BitAnd(a, b) ==
  IF a = 0 \/ b = 0 THEN 0
  ELSE (a % 2) * (b % 2) + 2 * BitAnd(a \div 2, b \div 2)

u32_and(a, b) == [hi |-> BitAnd(a.hi, b.hi), lo |-> BitAnd(a.lo, b.lo)]

\* the value of a 32-bit quantity that fits an index (hi = 0 for every cursor)
u32_val(a) == a.hi * 65536 + a.lo

(***************************************************************************)
(* Memory.  Storage and caller arrays are functions on 0..n-1.  A read      *)
(* outside the region yields junk, an arbitrary value chosen by the caller  *)
(* of the operator (what lies behind the region is not determined by the    *)
(* program); a write outside the region does not change the region.         *)
(***************************************************************************)
Load(mem, i, junk) == IF i \in DOMAIN mem THEN mem[i] ELSE junk

\* memcpy(dst + d, src + s, n elements)
memcpy(dst, d, src, s, n, junk) ==
  [i \in DOMAIN dst |->
     IF d <= i /\ i < d + n THEN Load(src, s + (i - d), junk) ELSE dst[i]]

\* some element of x .. x+n-1 lies outside the region
Outside(mem, x, n) == \E i \in x .. (x + n - 1) : i \notin DOMAIN mem

SeqOf(a) == [i \in 1 .. Cardinality(DOMAIN a) |-> a[i - 1]]

\* *(ptr + i) = v for one element
Store(mem, i, v) == [j \in DOMAIN mem |-> IF j = i THEN v ELSE mem[j]]

(***************************************************************************)
(* generic_fifo.h : struct generic_fifo                                     *)
(*   { buffer, in_idx, out_idx, size, user_buffer_flag }                    *)
(* An operation yields [fifo, ret, val, oob]: the structure afterwards, the *)
(* returned value, the caller's output variable afterwards, and whether a   *)
(* slot outside the storage was accessed.                                   *)
(***************************************************************************)
generic_fifo_init(buffer, flag, size) ==
  [buffer |-> buffer, size |-> size, in_idx |-> 0, out_idx |-> 0,
   user_buffer_flag |-> flag]

generic_fifo_full(f) ==
  u32_mod(u32_add(U32(f.in_idx), U32(1)), f.size) = f.out_idx

generic_fifo_empty(f) == f.in_idx = f.out_idx

\* mutant: the difference of the cursors taken as signed, without the wrap
generic_fifo_valid_count_signed(f) ==
  IF f.in_idx >= f.out_idx THEN (f.in_idx - f.out_idx) % f.size
  ELSE 0 - ((f.out_idx - f.in_idx) % f.size)

generic_fifo_valid_count(f) ==
  u32_mod(u32_add(u32_sub(U32(f.in_idx), U32(f.out_idx)), U32(f.size)), f.size)

\* the value of the expression of lines 131-132, converted to int (the
\* statement expression lacks the ';' after it)
generic_fifo_unused_count(f) ==
  u32_val(u32_sub(U32(f.size),
                  U32(u32_mod(u32_add(u32_sub(U32(f.in_idx), U32(f.out_idx)),
                                      U32(f.size)), f.size))))

generic_fifo_insert(f, value) ==
  IF ~generic_fifo_full(f)
  THEN [fifo |-> [f EXCEPT !.buffer = Store(f.buffer, f.in_idx, value),
                           !.in_idx = u32_mod(u32_add(U32(f.in_idx), U32(1)), f.size)],
        ret |-> 1, val |-> value, oob |-> Outside(f.buffer, f.in_idx, 1)]
  ELSE [fifo |-> f, ret |-> 0, val |-> value, oob |-> FALSE]

\* mutant: hands out the newest element, the slot before in_idx
generic_fifo_remove_newest(f, value, junk) ==
  IF ~generic_fifo_empty(f)
  THEN [fifo |-> [f EXCEPT !.out_idx = u32_mod(u32_add(U32(f.out_idx), U32(1)), f.size)],
        ret |-> 1, val |-> Load(f.buffer, (f.in_idx + f.size - 1) % f.size, junk),
        oob |-> FALSE]
  ELSE [fifo |-> f, ret |-> 0, val |-> value, oob |-> FALSE]

generic_fifo_remove(f, value, junk) ==
  IF ~generic_fifo_empty(f)
  THEN [fifo |-> [f EXCEPT !.out_idx = u32_mod(u32_add(U32(f.out_idx), U32(1)), f.size)],
        ret |-> 1, val |-> Load(f.buffer, f.out_idx, junk),
        oob |-> Outside(f.buffer, f.out_idx, 1)]
  ELSE [fifo |-> f, ret |-> 0, val |-> value, oob |-> FALSE]

\* mutant: the slot is out_idx + index without the remainder
generic_fifo_change_raw(f, value, index) ==
  IF generic_fifo_valid_count(f) > index
  THEN [fifo |-> [f EXCEPT !.buffer = Store(f.buffer, f.out_idx + index, value)],
        ret |-> 1, val |-> value, oob |-> Outside(f.buffer, f.out_idx + index, 1)]
  ELSE [fifo |-> f, ret |-> 0, val |-> value, oob |-> FALSE]

\* value is read only by the call
generic_fifo_change(f, value, index) ==
  IF generic_fifo_valid_count(f) > index
  THEN [fifo |-> [f EXCEPT !.buffer =
                     Store(f.buffer,
                           u32_mod(u32_add(U32(f.out_idx), U32(index)), f.size),
                           value)],
        ret |-> 1, val |-> value, oob |-> FALSE]
  ELSE [fifo |-> f, ret |-> 0, val |-> value, oob |-> FALSE]

\* mutant: the scan takes the slots in storage order, out_idx + __count
\* without the remainder (nothing beyond the storage matches)
RECURSIVE select_value_scan_raw(_, _, _, _, _)
select_value_scan_raw(f, value, count, buffer_offset, valid) ==
  IF count < valid
  THEN IF Load(f.buffer, buffer_offset, NoVal) = value
       THEN count
       ELSE select_value_scan_raw(f, value, count + 1, f.out_idx + count + 1, valid)
  ELSE 0 - 1

\* the while loop of generic_fifo_select_value, entered with __count and
\* __buffer_offset; yields __ret
RECURSIVE select_value_scan(_, _, _, _, _)
select_value_scan(f, value, count, buffer_offset, valid) ==
  IF count < valid
  THEN IF Load(f.buffer, buffer_offset, NoVal) = value
       THEN count
       ELSE select_value_scan(f, value, count + 1,
                              u32_mod(u32_add(U32(f.out_idx), U32(count + 1)), f.size),
                              valid)
  ELSE 0 - 1

\* yields [fifo, ret]: the macro writes nothing
generic_fifo_select_value(f, value) ==
  [fifo |-> f,
   ret |-> IF ~generic_fifo_empty(f)
           THEN select_value_scan(f, value, 0, f.out_idx, generic_fifo_valid_count(f))
           ELSE 0 - 1]

generic_fifo_select_index(f, value, index, junk) ==
  IF generic_fifo_valid_count(f) > index
  THEN [fifo |-> f, ret |-> 1, val |-> Load(f.buffer, f.out_idx + index, junk),
        oob |-> Outside(f.buffer, f.out_idx + index, 1)]
  ELSE [fifo |-> f, ret |-> 0, val |-> value, oob |-> FALSE]

\* mutant: only the write cursor goes back to 0
generic_fifo_reset_in_only(f) == [f EXCEPT !.in_idx = 0]

generic_fifo_reset(f) == [f EXCEPT !.in_idx = 0, !.out_idx = 0]

\* the null storage reference: no slot can be accessed through it
NULL == <<>>

\* mutant: frees on the flag alone, without looking at the reference
generic_fifo_free_unguarded(f) ==
  IF f.user_buffer_flag = 1
  THEN [fifo |-> [f EXCEPT !.buffer = NULL], freed |-> TRUE]
  ELSE [fifo |-> f, freed |-> FALSE]

\* deinit and free yield [fifo, freed]: freed tells that free(__fifo->buffer)
\* was called
generic_fifo_deinit(f) ==
  [fifo |-> [f EXCEPT !.buffer = NULL, !.in_idx = 0, !.out_idx = 0],
   freed |-> (f.buffer # NULL) /\ (f.user_buffer_flag = 1)]

generic_fifo_free(f) ==
  IF (f.buffer # NULL) /\ (f.user_buffer_flag = 1)
  THEN [fifo |-> [f EXCEPT !.buffer = NULL], freed |-> TRUE]
  ELSE [fifo |-> f, freed |-> FALSE]

(***************************************************************************)
(* gfifo.h : struct gfifo { data, in, out, size, mask }                     *)
(***************************************************************************)
gfifo_init(buf, size) ==
  [data |-> buf, in |-> 0, out |-> 0, size |-> size,
   mask |-> u32_sub(U32(size), U32(1))]

gfifo_empty(f) == f.in = f.out

\* mutant: the successor of in taken without the mask
gfifo_full_nomask(f) == f.in + 1 = f.out

gfifo_full(f) == u32_val(u32_and(u32_add(U32(f.in), U32(1)), f.mask)) = f.out

\* mutant: the difference of the cursors without the mask
gfifo_vaild_count_nomask(f) == f.in - f.out

gfifo_vaild_count(f) == u32_val(u32_and(u32_sub(U32(f.in), U32(f.out)), f.mask))

gfifo_insert(f, value) ==
  IF ~(u32_val(u32_and(u32_add(U32(f.in), U32(1)), f.mask)) = f.out)
  THEN [fifo |-> [f EXCEPT !.data = Store(f.data, f.in, value),
                           !.in = u32_val(u32_and(u32_add(U32(f.in), U32(1)), f.mask))],
        ret |-> 1, val |-> value, oob |-> Outside(f.data, f.in, 1)]
  ELSE [fifo |-> f, ret |-> 0, val |-> value, oob |-> FALSE]

gfifo_remove(f, value, junk) ==
  IF ~(f.in = f.out)
  THEN [fifo |-> [f EXCEPT !.out = u32_val(u32_and(u32_add(U32(f.out), U32(1)), f.mask))],
        ret |-> 1, val |-> Load(f.data, f.out, junk),
        oob |-> Outside(f.data, f.out, 1)]
  ELSE [fifo |-> f, ret |-> 0, val |-> value, oob |-> FALSE]

\* Line 143 gives the size of the copy as "sizoef (_type)", and sizoef is
\* declared nowhere: the source does not say how many bytes are copied.  whole
\* tells whether they are the sizeof (_type) bytes of one element; if not,
\* the caller's variable does not receive the element.
gfifo_peek(f, value, junk, whole) ==
  IF ~(f.in = f.out)
  THEN [fifo |-> f, ret |-> 1,
        val |-> IF whole THEN Load(f.data, f.out, junk) ELSE value,
        oob |-> Outside(f.data, f.out, 1)]
  ELSE [fifo |-> f, ret |-> 0, val |-> value, oob |-> FALSE]

\* mutant: the discarded slot is cleared
gfifo_throw_clearing(f) ==
  IF ~(f.in = f.out)
  THEN [fifo |-> [f EXCEPT !.data = Store(f.data, f.out, 0),
                           !.out = u32_val(u32_and(u32_add(U32(f.out), U32(1)), f.mask))],
        ret |-> 1, oob |-> FALSE]
  ELSE [fifo |-> f, ret |-> 0, oob |-> FALSE]

gfifo_throw(f) ==
  IF ~(f.in = f.out)
  THEN [fifo |-> [f EXCEPT !.out = u32_val(u32_and(u32_add(U32(f.out), U32(1)), f.mask))],
        ret |-> 1, oob |-> FALSE]
  ELSE [fifo |-> f, ret |-> 0, oob |-> FALSE]

\* mutant: admits count + len = size, one element more than fits
gfifo_insert_array_le(f, array, len, junk) ==
  IF u32_val(u32_add(U32(gfifo_vaild_count(f)), U32(len))) <= f.size
  THEN [fifo |-> [f EXCEPT !.data = memcpy(f.data, f.in, array, 0, len, junk),
                           !.in = u32_val(u32_and(u32_add(U32(f.in), U32(len)), f.mask))],
        ret |-> 1, oob |-> Outside(f.data, f.in, len)]
  ELSE [fifo |-> f, ret |-> 0, oob |-> FALSE]

\* mutant: the write cursor is advanced by len without the mask
gfifo_insert_array_nomask(f, array, len, junk) ==
  IF u32_val(u32_add(U32(gfifo_vaild_count(f)), U32(len))) < f.size
  THEN [fifo |-> [f EXCEPT !.data = memcpy(f.data, f.in, array, 0, len, junk),
                           !.in = f.in + len],
        ret |-> 1, oob |-> Outside(f.data, f.in, len)]
  ELSE [fifo |-> f, ret |-> 0, oob |-> FALSE]

\* yields [fifo, ret, oob]; array is the caller's array of len elements
gfifo_insert_array(f, array, len, junk) ==
  IF u32_val(u32_add(U32(gfifo_vaild_count(f)), U32(len))) < f.size
  THEN LET first == f.size - f.in
           rest == len - (f.size - f.in)
           data == IF f.in + len < f.size
                   THEN memcpy(f.data, f.in, array, 0, len, junk)
                   ELSE memcpy(memcpy(f.data, f.in, array, 0, first, junk),
                               0, array, rest, rest, junk)
       IN  [fifo |-> [f EXCEPT !.data = data,
                               !.in = u32_val(u32_and(u32_add(U32(f.in), U32(len)), f.mask))],
            ret |-> 1,
            oob |-> IF f.in + len < f.size
                    THEN Outside(f.data, f.in, len)
                    ELSE Outside(f.data, f.in, first) \/ Outside(f.data, 0, rest)
                         \/ Outside(array, rest, rest)]
  ELSE [fifo |-> f, ret |-> 0, oob |-> FALSE]

\* yields [fifo, ret, arr, oob]; array is the caller's output array of len elements
gfifo_remove_array(f, array, len, junk) ==
  IF gfifo_vaild_count(f) >= len
  THEN LET first == f.size - f.out
           rest == len - (f.size - f.out)
           arr == IF f.out + len < f.size
                  THEN memcpy(array, 0, f.data, f.out, len, junk)
                  ELSE memcpy(memcpy(array, 0, f.data, f.out, first, junk),
                              rest, f.data, 0, rest, junk)
       IN  [fifo |-> [f EXCEPT !.out = u32_val(u32_and(u32_add(U32(f.out), U32(len)), f.mask))],
            ret |-> 1, arr |-> arr,
            oob |-> IF f.out + len < f.size
                    THEN Outside(f.data, f.out, len)
                    ELSE Outside(f.data, f.out, first) \/ Outside(f.data, 0, rest)
                         \/ Outside(array, rest, rest)]
  ELSE [fifo |-> f, ret |-> 0, arr |-> array, oob |-> FALSE]

(***************************************************************************)
(* CircularFifo.cs : class CircularFifo<T>                                  *)
(*   { _buffer, _inIdx, _outIdx, _size, _capacity }                         *)
(* bool results are 1 (true) and 0 (false); oob tells that the call indexed *)
(* outside _buffer, which ends it in an IndexOutOfRangeException instead of *)
(* a return (ret and val are then what the caller had before).              *)
(***************************************************************************)
CircularFifo(capacity) ==
  [buffer |-> [i \in 0 .. capacity |-> 0], capacity |-> capacity,
   size |-> capacity + 1, inIdx |-> 0, outIdx |-> 0]

Count(f) ==
  u32_mod(u32_add(u32_sub(U32(f.inIdx), U32(f.outIdx)), U32(f.size)), f.size)

UnusedCount(f) == u32_val(u32_sub(U32(f.capacity), U32(Count(f))))

IsFull(f) == u32_mod(u32_add(U32(f.inIdx), U32(1)), f.size) = f.outIdx

IsEmpty(f) == f.inIdx = f.outIdx

\* mutant: stores and advances without asking IsFull
CircularFifo_Insert_overwrite(f, item) ==
  [fifo |-> [f EXCEPT !.buffer = Store(f.buffer, f.inIdx, item),
                      !.inIdx = u32_mod(u32_add(U32(f.inIdx), U32(1)), f.size)],
   ret |-> 1, val |-> item, oob |-> FALSE]

CircularFifo_Insert(f, item) ==
  IF IsFull(f)
  THEN [fifo |-> f, ret |-> 0, val |-> item, oob |-> FALSE]
  ELSE [fifo |-> [f EXCEPT !.buffer = Store(f.buffer, f.inIdx, item),
                           !.inIdx = u32_mod(u32_add(U32(f.inIdx), U32(1)), f.size)],
        ret |-> 1, val |-> item, oob |-> f.inIdx \notin DOMAIN f.buffer]

\* mutant: copies the slot at _outIdx into item before asking IsEmpty
CircularFifo_Remove_copyfirst(f, item) ==
  IF IsEmpty(f)
  THEN [fifo |-> f, ret |-> 0, val |-> f.buffer[f.outIdx], oob |-> FALSE]
  ELSE [fifo |-> [f EXCEPT !.outIdx = u32_mod(u32_add(U32(f.outIdx), U32(1)), f.size)],
        ret |-> 1, val |-> f.buffer[f.outIdx], oob |-> FALSE]

CircularFifo_Remove(f, item) ==
  IF IsEmpty(f)
  THEN [fifo |-> f, ret |-> 0, val |-> item, oob |-> FALSE]
  ELSE [fifo |-> [f EXCEPT !.outIdx = u32_mod(u32_add(U32(f.outIdx), U32(1)), f.size)],
        ret |-> 1, val |-> f.buffer[f.outIdx], oob |-> FALSE]

\* the overload Remove() without an output parameter
CircularFifo_Remove0(f) ==
  IF IsEmpty(f)
  THEN [fifo |-> f, ret |-> 0, oob |-> FALSE]
  ELSE [fifo |-> [f EXCEPT !.outIdx = u32_mod(u32_add(U32(f.outIdx), U32(1)), f.size)],
        ret |-> 1, oob |-> FALSE]

\* C# remainder of a long by a positive divisor: truncates toward zero
long_rem(a, m) == IF a >= 0 THEN a % m ELSE 0 - ((0 - a) % m)

GetValue(f, item, index) ==
  IF index < 0 /\ index > Count(f)
  THEN [fifo |-> f, ret |-> 0, val |-> item, oob |-> FALSE]
  ELSE LET i == long_rem(f.outIdx + index, f.size)
       IN  IF i \in DOMAIN f.buffer
           THEN [fifo |-> f, ret |-> 1, val |-> f.buffer[i], oob |-> FALSE]
           ELSE [fifo |-> f, ret |-> 0, val |-> item, oob |-> TRUE]

\* mutant: the slots are taken from the start of _buffer, in storage order
GetAll_storage_order(f) ==
  [fifo |-> f, arr |-> [i \in 0 .. (Count(f) - 1) |-> f.buffer[i]], oob |-> FALSE]

\* yields [fifo, arr, oob]: arr is the array returned (indexed from 0)
GetAll(f) ==
  LET slot(i) == long_rem(f.outIdx + i, f.size)
  IN  [fifo |-> f,
       arr |-> [i \in 0 .. (Count(f) - 1) |-> Load(f.buffer, slot(i), 0)],
       oob |-> \E i \in 0 .. (Count(f) - 1) : slot(i) \notin DOMAIN f.buffer]

Clear(f) == [f EXCEPT !.inIdx = 0, !.outIdx = 0]

\* mutant: the elements are read as by GetAll, no Remove is called
RemoveAll_no_remove(f) ==
  [fifo |-> f,
   arr |-> [i \in 0 .. (Count(f) - 1) |-> f.buffer[long_rem(f.outIdx + i, f.size)]],
   oob |-> FALSE]

\* the loop of RemoveAll from i on: Remove(ref ret[i]) for each element of ret
RECURSIVE RemoveAll_loop(_, _, _)
RemoveAll_loop(f, ret, i) ==
  IF i < Cardinality(DOMAIN ret)
  THEN LET r == CircularFifo_Remove(f, ret[i])
       IN  RemoveAll_loop(r.fifo, [ret EXCEPT ![i] = r.val], i + 1)
  ELSE [fifo |-> f, arr |-> ret, oob |-> FALSE]

\* yields [fifo, arr, oob]; new T[Count()] holds default(T) in every element
RemoveAll(f) == RemoveAll_loop(f, [i \in 0 .. (Count(f) - 1) |-> 0], 0)

(***************************************************************************)
(* State.  One buffer under test, of one of the three restatements.         *)
(*   variant  which restatement the buffer is                               *)
(*   fifo     the structure / object                                        *)
(* and what the caller of the last call observed:                           *)
(*   op, arg  the call and its argument (value, index or length)            *)
(*   ret      its result                                                    *)
(*   val      the caller's output variable after the call                   *)
(*   arr      the caller's output array after the call                      *)
(*   oob      the call accessed a slot outside the storage or the array     *)
(* and the history of the run:                                              *)
(*   q        the values inserted successfully and not yet removed          *)
(*   net      elements taken by successful inserts minus elements given     *)
(*            back by successful removes                                    *)
(* and, for generic_fifo, the storage regions handed to generic_fifo_init   *)
(* so far:                                                                  *)
(*   heap     one record per region, in the order of the inits: the flag it *)
(*            was bound with and how often free() was called on it; the     *)
(*            structure's buffer, while not NULL, refers to the last one    *)
(* and, where one thread inserts while another removes, what each of them   *)
(* is in the middle of:                                                     *)
(*   producer the value being inserted and the steps of the insert still   *)
(*            to come                                                       *)
(*   consumer the caller's output variable and the steps of the remove      *)
(*            still to come                                                 *)
(* Before a call the caller's output variable, and every cell of its output *)
(* array, holds Untouched, a content different from every inserted value:   *)
(* no operation reads its output argument, and whatever it writes there     *)
(* shows.                                                                   *)
(***************************************************************************)
VARIABLES variant, fifo, op, arg, ret, val, arr, oob, q, net, heap,
          producer, consumer

vars == <<variant, fifo, op, arg, ret, val, arr, oob, q, net, heap,
          producer, consumer>>

Untouched == NoVal

IsPow2(n) == n \in {1, 2, 4, 8, 16, 32, 64}

\* slot counts a buffer is validly bound to (capacity >= 1; power of two for gfifo)
GenericSizes == 1 .. MaxSize
GfifoSizes == {n \in 1 .. MaxSize : IsPow2(n)}
CircularCapacities == 0 .. (MaxSize - 1)

Arrays(n) == [0 .. (n - 1) -> Values]

\* a thread that is in no call
Idle == [v |-> NoVal, todo |-> <<>>]

NoCall ==
  /\ op = "init" /\ arg = NoVal /\ ret = NoVal /\ val = NoVal
  /\ arr = <<>> /\ oob = FALSE /\ q = <<>> /\ net = 0
  /\ producer = Idle /\ consumer = Idle

\* a region newly bound with the flag
Region(flag) == [flag |-> flag, frees |-> 0]

InitGeneric ==
  /\ variant = "generic_fifo"
  /\ \E size \in GenericSizes, flag \in {0, 1} : \E buffer \in Arrays(size) :
       fifo = generic_fifo_init(buffer, flag, size) /\ heap = <<Region(flag)>>
  /\ NoCall

InitGfifo ==
  /\ variant = "gfifo"
  /\ \E size \in GfifoSizes : \E buf \in Arrays(size) : fifo = gfifo_init(buf, size)
  /\ heap = <<>> /\ NoCall

InitCircular ==
  /\ variant = "CircularFifo"
  /\ \E capacity \in CircularCapacities : fifo = CircularFifo(capacity)
  /\ heap = <<>> /\ NoCall

Init == InitGeneric \/ InitGfifo \/ InitCircular

\* what a read outside the region may find there: any value, when a call makes
\* such a read, and nothing to choose when it makes none
Behind(reads_outside) == IF reads_outside THEN Values ELSE {0}

\* what a call made with no other call under way has nothing to do with,
\* unless it is init, deinit or free
apart == <<heap, producer, consumer>>

\* what a call on the single-element interface leaves for the caller to see
Seen(name, a, r, output) ==
  /\ op' = name /\ arg' = a /\ ret' = r.ret /\ val' = output
  /\ arr' = <<>> /\ oob' = r.oob
  /\ UNCHANGED apart

Inserted(r, v) ==
  /\ q' = IF r.ret = 1 THEN Append(q, v) ELSE q
  /\ net' = net + r.ret

Removed(r) ==
  /\ q' = IF r.ret = 1 /\ q # <<>> THEN Tail(q) ELSE q
  /\ net' = net - r.ret

GenericInsert ==
  /\ variant = "generic_fifo"
  /\ \E v \in Values :
       \E r \in {generic_fifo_insert(fifo, v)} :
           fifo' = r.fifo /\ Seen("generic_fifo_insert", v, r, NoVal)
           /\ Inserted(r, v)
  /\ UNCHANGED variant

GenericRemove ==
  /\ variant = "generic_fifo"
  /\ \E junk \in Behind(generic_fifo_remove(fifo, Untouched, 0).oob) :
       \E r \in {generic_fifo_remove(fifo, Untouched, junk)} :
           fifo' = r.fifo /\ Seen("generic_fifo_remove", NoVal, r, r.val)
           /\ Removed(r)
  /\ UNCHANGED variant

GenericSelectIndex ==
  /\ variant = "generic_fifo"
  /\ \E index \in 0 .. fifo.size :
     \E junk \in Behind(generic_fifo_select_index(fifo, Untouched, index, 0).oob) :
       \E r \in {generic_fifo_select_index(fifo, Untouched, index, junk)} :
           fifo' = r.fifo /\ Seen("generic_fifo_select_index", index, r, r.val)
  /\ UNCHANGED <<variant, q, net>>

GfifoInsert ==
  /\ variant = "gfifo"
  /\ \E v \in Values :
       \E r \in {gfifo_insert(fifo, v)} :
           fifo' = r.fifo /\ Seen("gfifo_insert", v, r, NoVal)
           /\ Inserted(r, v)
  /\ UNCHANGED variant

GfifoRemove ==
  /\ variant = "gfifo"
  /\ \E junk \in Behind(gfifo_remove(fifo, Untouched, 0).oob) :
       \E r \in {gfifo_remove(fifo, Untouched, junk)} :
           fifo' = r.fifo /\ Seen("gfifo_remove", NoVal, r, r.val)
           /\ Removed(r)
  /\ UNCHANGED variant

GfifoPeek ==
  /\ variant = "gfifo"
  /\ \E junk \in Behind(gfifo_peek(fifo, Untouched, 0, TRUE).oob), whole \in BOOLEAN :
       \E r \in {gfifo_peek(fifo, Untouched, junk, whole)} :
           fifo' = r.fifo /\ Seen("gfifo_peek", NoVal, r, r.val)
  /\ UNCHANGED <<variant, q, net>>

GfifoThrow ==
  /\ variant = "gfifo"
  /\ \E r \in {gfifo_throw(fifo)} :
         fifo' = r.fifo /\ Seen("gfifo_throw", NoVal, r, NoVal)
         /\ Removed(r)
  /\ UNCHANGED variant

CircularInsert ==
  /\ variant = "CircularFifo"
  /\ \E item \in Values :
       \E r \in {CircularFifo_Insert(fifo, item)} :
           fifo' = r.fifo /\ Seen("CircularFifo.Insert", item, r, NoVal)
           /\ Inserted(r, item)
  /\ UNCHANGED variant

CircularRemove ==
  /\ variant = "CircularFifo"
  /\ \E r \in {CircularFifo_Remove(fifo, Untouched)} :
         fifo' = r.fifo /\ Seen("CircularFifo.Remove(ref)", NoVal, r, r.val)
         /\ Removed(r)
  /\ UNCHANGED variant

CircularRemove0 ==
  /\ variant = "CircularFifo"
  /\ \E r \in {CircularFifo_Remove0(fifo)} :
         fifo' = r.fifo /\ Seen("CircularFifo.Remove()", NoVal, r, NoVal)
         /\ Removed(r)
  /\ UNCHANGED variant

CircularGetValue ==
  /\ variant = "CircularFifo"
  /\ \E index \in (0 - fifo.size) .. fifo.size :
       \E r \in {GetValue(fifo, Untouched, index)} :
           fifo' = r.fifo /\ Seen("CircularFifo.GetValue", index, r, r.val)
  /\ UNCHANGED <<variant, q, net>>

\* the caller's array is read only by the call: q keeps what was handed over
\* (a call that fails reads nothing of the array: one array stands for all)
GfifoInsertArray ==
  /\ variant = "gfifo"
  /\ \E len \in 0 .. fifo.size :
     \E array \in IF gfifo_insert_array(fifo, [i \in 0 .. (len - 1) |-> 0], len, 0).ret = 1
                  THEN Arrays(len)
                  ELSE {[i \in 0 .. (len - 1) |-> 0]} :
     \E junk \in Behind(gfifo_insert_array(fifo, array, len, 0).oob) :
       \E r \in {gfifo_insert_array(fifo, array, len, junk)} :
           /\ fifo' = r.fifo
           /\ op' = "gfifo_insert_array" /\ arg' = len /\ ret' = r.ret
           /\ val' = NoVal /\ arr' = <<>> /\ oob' = r.oob
           /\ q' = IF r.ret = 1 THEN q \o SeqOf(array) ELSE q
           /\ net' = IF r.ret = 1 THEN net + len ELSE net
  /\ UNCHANGED variant /\ UNCHANGED apart

GfifoRemoveArray ==
  /\ variant = "gfifo"
  /\ \E len \in 0 .. fifo.size :
     \E junk \in Behind(gfifo_remove_array(fifo, [i \in 0 .. (len - 1) |-> Untouched],
                                           len, 0).oob) :
       \E r \in {gfifo_remove_array(fifo, [i \in 0 .. (len - 1) |-> Untouched],
                                     len, junk)} :
           /\ fifo' = r.fifo
           /\ op' = "gfifo_remove_array" /\ arg' = len /\ ret' = r.ret
           /\ val' = NoVal /\ arr' = SeqOf(r.arr) /\ oob' = r.oob
           /\ q' = IF r.ret = 1 THEN SubSeq(q, len + 1, Len(q)) ELSE q
           /\ net' = IF r.ret = 1 THEN net - len ELSE net
  /\ UNCHANGED variant /\ UNCHANGED apart

\* a call that only reports a number: nothing of the buffer changes
Reported(name, n) ==
  /\ op' = name /\ arg' = NoVal /\ ret' = n /\ val' = NoVal
  /\ arr' = <<>> /\ oob' = FALSE
  /\ UNCHANGED <<variant, fifo, q, net>> /\ UNCHANGED apart

GenericUnusedCount ==
  /\ variant = "generic_fifo"
  /\ Reported("generic_fifo_unused_count", generic_fifo_unused_count(fifo))

CircularUnusedCount ==
  /\ variant = "CircularFifo"
  /\ Reported("CircularFifo.UnusedCount", UnusedCount(fifo))

GenericSelectValue ==
  /\ variant = "generic_fifo"
  /\ \E value \in Values :
       \E r \in {generic_fifo_select_value(fifo, value)} :
           /\ fifo' = r.fifo
           /\ op' = "generic_fifo_select_value" /\ arg' = value /\ ret' = r.ret
           /\ val' = NoVal /\ arr' = <<>> /\ oob' = FALSE
  /\ UNCHANGED <<variant, q, net>> /\ UNCHANGED apart

\* q keeps the held values: a successful change replaces the one at index
GenericChange ==
  /\ variant = "generic_fifo"
  /\ \E value \in Values, index \in 0 .. fifo.size :
       \E r \in {generic_fifo_change(fifo, value, index)} :
           /\ fifo' = r.fifo /\ Seen("generic_fifo_change", index, r, r.val)
           /\ q' = IF r.ret = 1 /\ index < Len(q)
                   THEN [q EXCEPT ![index + 1] = value] ELSE q
  /\ UNCHANGED <<variant, net>>

CircularGetAll ==
  /\ variant = "CircularFifo"
  /\ \E r \in {GetAll(fifo)} :
         /\ fifo' = r.fifo
         /\ op' = "CircularFifo.GetAll" /\ arg' = NoVal /\ ret' = NoVal
         /\ val' = NoVal /\ arr' = SeqOf(r.arr) /\ oob' = r.oob
  /\ UNCHANGED <<variant, q, net>> /\ UNCHANGED apart

\* a reset gives up whatever was held: the history starts again
Forgot(name) ==
  /\ op' = name /\ arg' = NoVal /\ ret' = NoVal /\ val' = NoVal
  /\ arr' = <<>> /\ oob' = FALSE
  /\ q' = <<>> /\ net' = 0
  /\ UNCHANGED variant /\ UNCHANGED apart

GenericReset ==
  /\ variant = "generic_fifo"
  /\ fifo' = generic_fifo_reset(fifo) /\ Forgot("generic_fifo_reset")

CircularClear ==
  /\ variant = "CircularFifo"
  /\ fifo' = Clear(fifo) /\ Forgot("CircularFifo.Clear")

CircularRemoveAll ==
  /\ variant = "CircularFifo"
  /\ \E r \in {RemoveAll(fifo)} :
         /\ fifo' = r.fifo
         /\ op' = "CircularFifo.RemoveAll" /\ arg' = NoVal /\ ret' = NoVal
         /\ val' = NoVal /\ arr' = SeqOf(r.arr) /\ oob' = r.oob
         /\ q' = SubSeq(q, Len(arr') + 1, Len(q))
         /\ net' = net - Len(arr')
  /\ UNCHANGED variant /\ UNCHANGED apart

(***************************************************************************)
(* Construction with a capacity the restatement is not made for.  No init   *)
(* macro and no constructor tests its size: the structure is bound as with  *)
(* any other size.                                                          *)
(*   gfifo, size 0 or not a power of two: mask = size - 1 is not a run of   *)
(*     one bits (for size 0 it is 0xFFFFFFFF, and no slot is in the storage)*)
(*   CircularFifo(0): one slot, _size = 1                                   *)
(*   generic_fifo, size 0: the remainders "% size" of insert and remove     *)
(*     divide by zero, which is undefined: the call traps, or the remainder *)
(*     is some number                                                       *)
(***************************************************************************)
BadGfifoSizes == {n \in 0 .. MaxBadSize : ~IsPow2(n)}

InitBadGeneric ==
  /\ variant = "generic_fifo"
  /\ \E flag \in {0, 1} : fifo = generic_fifo_init(<<>>, flag, 0) /\ heap = <<Region(flag)>>
  /\ NoCall

InitBadGfifo ==
  /\ variant = "gfifo"
  /\ \E size \in BadGfifoSizes : \E buf \in Arrays(size) : fifo = gfifo_init(buf, size)
  /\ heap = <<>> /\ NoCall

InitBadCircular ==
  /\ variant = "CircularFifo" /\ fifo = CircularFifo(0) /\ heap = <<>> /\ NoCall

\* a call that traps does not return: the caller sees no result
Trapped(name, a) ==
  /\ op' = name /\ arg' = a /\ ret' = NoVal /\ val' = NoVal
  /\ arr' = <<>> /\ oob' = FALSE
  /\ UNCHANGED <<variant, fifo, q, net>> /\ UNCHANGED apart

\* generic_fifo_insert where (in_idx + 1) % size is undefined: rem_full is what
\* the remainder yields in the full test, rem_in what it yields for in_idx
GenericInsertSizeZero ==
  /\ variant = "generic_fifo" /\ fifo.size = 0 /\ net < MaxNet
  /\ \E v \in Values :
       \/ Trapped("generic_fifo_insert", v)
       \/ \E rem_full \in 0 .. MaxRem, rem_in \in 0 .. MaxRem :
          \E r \in {IF ~(rem_full = fifo.out_idx)
                    THEN [fifo |-> [fifo EXCEPT !.buffer = Store(fifo.buffer, fifo.in_idx, v),
                                                !.in_idx = rem_in],
                          ret |-> 1, val |-> v,
                          oob |-> Outside(fifo.buffer, fifo.in_idx, 1)]
                    ELSE [fifo |-> fifo, ret |-> 0, val |-> v, oob |-> FALSE]} :
              /\ fifo' = r.fifo /\ Seen("generic_fifo_insert", v, r, NoVal)
              /\ Inserted(r, v) /\ UNCHANGED variant

\* generic_fifo_remove where (out_idx + 1) % size is undefined
GenericRemoveSizeZero ==
  /\ variant = "generic_fifo" /\ fifo.size = 0 /\ net > 0 - MaxNet
  /\ IF generic_fifo_empty(fifo)
     THEN \E r \in {[fifo |-> fifo, ret |-> 0, val |-> Untouched, oob |-> FALSE]} :
              /\ fifo' = r.fifo /\ Seen("generic_fifo_remove", NoVal, r, r.val)
              /\ Removed(r) /\ UNCHANGED variant
     ELSE \/ Trapped("generic_fifo_remove", NoVal)
          \/ \E rem_out \in 0 .. MaxRem, junk \in Values :
             \E r \in {[fifo |-> [fifo EXCEPT !.out_idx = rem_out],
                        ret |-> 1, val |-> Load(fifo.buffer, fifo.out_idx, junk),
                        oob |-> Outside(fifo.buffer, fifo.out_idx, 1)]} :
                 /\ fifo' = r.fifo /\ Seen("generic_fifo_remove", NoVal, r, r.val)
                 /\ Removed(r) /\ UNCHANGED variant

\* single-element insert and remove after such a construction; a size 0 gfifo
\* takes inserts without end, followed here up to MaxBadSize of them, and a
\* size 0 generic_fifo inserts and removes, followed while net is within MaxNet
NextConfig ==
  \/ GenericInsertSizeZero \/ GenericRemoveSizeZero
  \/ (variant = "gfifo" /\ fifo.in < MaxBadSize /\ GfifoInsert) \/ GfifoRemove
  \/ CircularInsert \/ CircularRemove

SpecConfig == (InitBadGeneric \/ InitBadGfifo \/ InitBadCircular) /\ [][NextConfig]_vars

(***************************************************************************)
(* Life of a generic_fifo: bound by generic_fifo_init, used, torn down by   *)
(* generic_fifo_deinit / generic_fifo_free, and bound again.  Every init    *)
(* binds a region of its own, live and bound by no other init; the caller   *)
(* passes flag 1 for a region from malloc.  A region bound again after the  *)
(* first holds 0 in every slot (its content plays no part in a teardown).   *)
(* Insert and remove through a NULL buffer access no slot of any region     *)
(* (oob).                                                                   *)
(***************************************************************************)
GenericInit ==
  /\ variant = "generic_fifo" /\ Len(heap) < MaxRegions
  /\ \E size \in GenericSizes, flag \in {0, 1} :
       /\ fifo' = generic_fifo_init([i \in 0 .. (size - 1) |-> 0], flag, size)
       /\ heap' = Append(heap, Region(flag))
       /\ op' = "generic_fifo_init" /\ arg' = size
  /\ ret' = NoVal /\ val' = NoVal /\ arr' = <<>> /\ oob' = FALSE
  /\ q' = <<>> /\ net' = 0
  /\ UNCHANGED <<variant, producer, consumer>>

\* the call of free() made by a teardown is on the region buffer refers to
Freed(r) ==
  heap' = IF r.freed THEN [heap EXCEPT ![Len(heap)].frees = @ + 1] ELSE heap

GenericDeinit ==
  /\ variant = "generic_fifo"
  /\ \E r \in {generic_fifo_deinit(fifo)} :
         /\ fifo' = r.fifo /\ Freed(r)
         /\ op' = "generic_fifo_deinit" /\ arg' = NoVal /\ ret' = NoVal
         /\ val' = NoVal /\ arr' = <<>> /\ oob' = FALSE
  /\ q' = <<>> /\ net' = 0
  /\ UNCHANGED <<variant, producer, consumer>>

GenericFree ==
  /\ variant = "generic_fifo"
  /\ \E r \in {generic_fifo_free(fifo)} :
         /\ fifo' = r.fifo /\ Freed(r)
         /\ op' = "generic_fifo_free" /\ arg' = NoVal /\ ret' = NoVal
         /\ val' = NoVal /\ arr' = <<>> /\ oob' = FALSE
  /\ UNCHANGED <<variant, q, net, producer, consumer>>

NextTeardown ==
  \/ GenericInit \/ GenericDeinit \/ GenericFree
  \/ GenericInsert \/ GenericRemove

SpecTeardown == InitGeneric /\ [][NextTeardown]_vars

\* the single-element interface and the indexed reads
Next ==
  \/ GenericInsert \/ GenericRemove \/ GenericSelectIndex
  \/ GfifoInsert \/ GfifoRemove \/ GfifoPeek \/ GfifoThrow
  \/ CircularInsert \/ CircularRemove \/ CircularRemove0 \/ CircularGetValue

Spec == Init /\ [][Next]_vars

\* gfifo with its bulk transfers
NextBulk ==
  \/ GfifoInsert \/ GfifoRemove \/ GfifoPeek \/ GfifoThrow
  \/ GfifoInsertArray \/ GfifoRemoveArray

SpecBulk == InitGfifo /\ [][NextBulk]_vars

\* generic_fifo and CircularFifo with their queries, in-place change, reset
\* and whole-content transfers next to single-element insert and remove
NextExt ==
  \/ GenericInsert \/ GenericRemove \/ CircularInsert \/ CircularRemove
  \/ GenericUnusedCount \/ CircularUnusedCount
  \/ GenericSelectValue \/ GenericChange
  \/ CircularGetAll
  \/ GenericReset \/ CircularClear \/ CircularRemoveAll

SpecExt == (InitGeneric \/ InitCircular) /\ [][NextExt]_vars

\* every operation of the three headers on a validly initialised buffer
NextAll ==
  \/ GenericInsert \/ GenericRemove \/ GenericSelectIndex
  \/ GenericUnusedCount \/ GenericSelectValue \/ GenericChange \/ GenericReset
  \/ GfifoInsert \/ GfifoRemove \/ GfifoPeek \/ GfifoThrow
  \/ GfifoInsertArray \/ GfifoRemoveArray
  \/ CircularInsert \/ CircularRemove \/ CircularRemove0 \/ CircularGetValue
  \/ CircularUnusedCount \/ CircularGetAll \/ CircularClear \/ CircularRemoveAll

SpecAll == Init /\ [][NextAll]_vars

\* the inserting, the removing and the reading operations, without the
\* operations that rewrite a held slot or rewind the cursors
NextFrame ==
  \/ GenericInsert \/ GenericRemove \/ GenericSelectIndex
  \/ GenericUnusedCount \/ GenericSelectValue
  \/ GfifoInsert \/ GfifoRemove \/ GfifoPeek \/ GfifoThrow
  \/ GfifoInsertArray \/ GfifoRemoveArray
  \/ CircularInsert \/ CircularRemove \/ CircularRemove0 \/ CircularGetValue
  \/ CircularUnusedCount \/ CircularGetAll \/ CircularRemoveAll

SpecFrame == Init /\ [][NextFrame]_vars

(***************************************************************************)
(* Views of the buffer under test that the properties are stated in: the    *)
(* cursors, the slot count, and the predicates, count, insert and remove of *)
(* its restatement.                                                         *)
(***************************************************************************)
InOf(f) == CASE variant = "generic_fifo" -> f.in_idx
             [] variant = "gfifo" -> f.in
             [] OTHER -> f.inIdx

OutOf(f) == CASE variant = "generic_fifo" -> f.out_idx
              [] variant = "gfifo" -> f.out
              [] OTHER -> f.outIdx

Slots(f) == f.size

CountOf(f) == CASE variant = "generic_fifo" -> generic_fifo_valid_count(f)
                [] variant = "gfifo" -> gfifo_vaild_count(f)
                [] OTHER -> Count(f)

FullOf(f) == CASE variant = "generic_fifo" -> generic_fifo_full(f)
               [] variant = "gfifo" -> gfifo_full(f)
               [] OTHER -> IsFull(f)

EmptyOf(f) == CASE variant = "generic_fifo" -> generic_fifo_empty(f)
                [] variant = "gfifo" -> gfifo_empty(f)
                [] OTHER -> IsEmpty(f)

InsertOf(f, v) == CASE variant = "generic_fifo" -> generic_fifo_insert(f, v)
                    [] variant = "gfifo" -> gfifo_insert(f, v)
                    [] OTHER -> CircularFifo_Insert(f, v)

\* (a remove that reads outside the storage finds Untouched there)
RemoveOf(f) == CASE variant = "generic_fifo" -> generic_fifo_remove(f, Untouched, Untouched)
                 [] variant = "gfifo" -> gfifo_remove(f, Untouched, Untouched)
                 [] OTHER -> CircularFifo_Remove(f, Untouched)

\* the values the next k successful single-element removes return, in order
RECURSIVE DrainN(_, _)
DrainN(f, k) ==
  IF k = 0 THEN <<>>
  ELSE LET r == RemoveOf(f)
       IN  IF r.ret = 1 THEN <<r.val>> \o DrainN(r.fifo, k - 1) ELSE <<>>

\* everything the buffer holds, as single-element removes would hand it out
Drain(f) == DrainN(f, Slots(f))

\* the buffer after k single-element removes
RECURSIVE AfterRemoves(_, _)
AfterRemoves(f, k) == IF k = 0 THEN f ELSE AfterRemoves(RemoveOf(f).fifo, k - 1)

\* the results of inserting the values of vs one after the other
RECURSIVE InsertAll(_, _)
InsertAll(f, vs) ==
  IF vs = <<>> THEN [fifo |-> f, rets |-> <<>>]
  ELSE LET r == InsertOf(f, Head(vs))
           t == InsertAll(r.fifo, Tail(vs))
       IN  [fifo |-> t.fifo, rets |-> <<r.ret>> \o t.rets]

\* the results and values of k single-element removes one after the other
RECURSIVE RemoveAllOf(_, _)
RemoveAllOf(f, k) ==
  IF k = 0 THEN [fifo |-> f, rets |-> <<>>, vals |-> <<>>]
  ELSE LET r == RemoveOf(f)
           t == RemoveAllOf(r.fifo, k - 1)
       IN  [fifo |-> t.fifo, rets |-> <<r.ret>> \o t.rets,
            vals |-> (IF r.ret = 1 THEN <<r.val>> ELSE <<>>) \o t.vals]

InsertOps == {"generic_fifo_insert", "gfifo_insert", "CircularFifo.Insert"}
RemoveOps == {"generic_fifo_remove", "gfifo_remove", "CircularFifo.Remove(ref)"}
DiscardOps == {"gfifo_throw", "CircularFifo.Remove()"}
PeekOps == {"gfifo_peek"}

\* the held elements lie across the physical end of the storage
Wrapped(f) == InOf(f) < OutOf(f)

(***************************************************************************)
(* One thread inserting and one thread removing on the same structure       *)
(* (generic_fifo or gfifo), without a lock.  A call is not one step: after  *)
(* the test of the cursors (full / empty) come the copy of the element and  *)
(* the assignment of the caller's own cursor, in the order of the macro's   *)
(* statements, and the steps of the two threads interleave in any way.      *)
(* The test reads the other thread's cursor while that thread may be about  *)
(* to assign it: it finds the value before or after the assignment,         *)
(* whichever the interleaving gives.  (The source has no barrier and no     *)
(* atomic access; the steps are taken to become visible to the other thread *)
(* in the order they are made.)  A call that fails its test is over with    *)
(* the test; q and net take a value when the insert returns.                *)
(***************************************************************************)
\* mutant: the write cursor is assigned before the element is copied
InsertSteps_cursor_first == <<"cursor", "copy">>

\* mutant: the read cursor is assigned before the element is copied out
RemoveSteps_cursor_first == <<"cursor", "copy">>

\* the statements under "if (__ret)" of insert and of remove
InsertSteps == <<"copy", "cursor">>
RemoveSteps == <<"copy", "cursor">>

InsertName == IF variant = "generic_fifo" THEN "generic_fifo_insert" ELSE "gfifo_insert"
RemoveName == IF variant = "generic_fifo" THEN "generic_fifo_remove" ELSE "gfifo_remove"

\* (cursor + 1) % size, (cursor + 1) & mask
Successor(f, i) ==
  IF variant = "generic_fifo" THEN u32_mod(u32_add(U32(i), U32(1)), f.size)
  ELSE u32_val(u32_and(u32_add(U32(i), U32(1)), f.mask))

SlotsOf(f) == IF variant = "generic_fifo" THEN f.buffer ELSE f.data

WithSlots(f, mem) ==
  IF variant = "generic_fifo" THEN [f EXCEPT !.buffer = mem] ELSE [f EXCEPT !.data = mem]

WithIn(f, i) ==
  IF variant = "generic_fifo" THEN [f EXCEPT !.in_idx = i] ELSE [f EXCEPT !.in = i]

WithOut(f, i) ==
  IF variant = "generic_fifo" THEN [f EXCEPT !.out_idx = i] ELSE [f EXCEPT !.out = i]

Threaded == variant \in {"generic_fifo", "gfifo"}

\* the call returns: what its caller sees
Returns(name, a, r, output) ==
  /\ op' = name /\ arg' = a /\ ret' = r /\ val' = output
  /\ UNCHANGED <<arr, oob>>

\* a step of the producer that is not the last of its call, or is
ProducerDone(rest) ==
  IF rest = <<>>
  THEN /\ producer' = Idle
       /\ Returns(InsertName, producer.v, 1, NoVal)
       /\ q' = Append(q, producer.v) /\ net' = net + 1
  ELSE /\ producer' = [producer EXCEPT !.todo = rest]
       /\ UNCHANGED <<op, arg, ret, val, arr, oob, q, net>>

ConsumerDone(rest, output) ==
  IF rest = <<>>
  THEN /\ consumer' = Idle
       /\ Returns(RemoveName, NoVal, 1, output)
       /\ q' = (IF q # <<>> THEN Tail(q) ELSE q) /\ net' = net - 1
  ELSE /\ consumer' = [v |-> output, todo |-> rest]
       /\ UNCHANGED <<op, arg, ret, val, arr, oob, q, net>>

ProducerTest ==
  /\ Threaded /\ producer.todo = <<>>
  /\ \E v \in Values :
       IF FullOf(fifo)
       THEN /\ Returns(InsertName, v, 0, NoVal)
            /\ UNCHANGED <<producer, q, net>>
       ELSE /\ producer' = [v |-> v, todo |-> InsertSteps]
            /\ UNCHANGED <<op, arg, ret, val, arr, oob, q, net>>
  /\ UNCHANGED <<variant, fifo, heap, consumer>>

ProducerCopy ==
  /\ Threaded /\ producer.todo # <<>> /\ Head(producer.todo) = "copy"
  /\ fifo' = WithSlots(fifo, Store(SlotsOf(fifo), InOf(fifo), producer.v))
  /\ ProducerDone(Tail(producer.todo))
  /\ UNCHANGED <<variant, heap, consumer>>

ProducerCursor ==
  /\ Threaded /\ producer.todo # <<>> /\ Head(producer.todo) = "cursor"
  /\ fifo' = WithIn(fifo, Successor(fifo, InOf(fifo)))
  /\ ProducerDone(Tail(producer.todo))
  /\ UNCHANGED <<variant, heap, consumer>>

ConsumerTest ==
  /\ Threaded /\ consumer.todo = <<>>
  /\ IF EmptyOf(fifo)
     THEN /\ Returns(RemoveName, NoVal, 0, Untouched)
          /\ UNCHANGED <<consumer, q, net>>
     ELSE /\ consumer' = [v |-> Untouched, todo |-> RemoveSteps]
          /\ UNCHANGED <<op, arg, ret, val, arr, oob, q, net>>
  /\ UNCHANGED <<variant, fifo, heap, producer>>

ConsumerCopy ==
  /\ Threaded /\ consumer.todo # <<>> /\ Head(consumer.todo) = "copy"
  /\ ConsumerDone(Tail(consumer.todo), SlotsOf(fifo)[OutOf(fifo)])
  /\ UNCHANGED <<variant, fifo, heap, producer>>

ConsumerCursor ==
  /\ Threaded /\ consumer.todo # <<>> /\ Head(consumer.todo) = "cursor"
  /\ fifo' = WithOut(fifo, Successor(fifo, OutOf(fifo)))
  /\ ConsumerDone(Tail(consumer.todo), consumer.v)
  /\ UNCHANGED <<variant, heap, producer>>

NextThreads ==
  \/ ProducerTest \/ ProducerCopy \/ ProducerCursor
  \/ ConsumerTest \/ ConsumerCopy \/ ConsumerCursor

SpecThreads == (InitGeneric \/ InitGfifo) /\ [][NextThreads]_vars

(***************************************************************************)
(* The three restatements side by side.  fifo holds one structure of each   *)
(* kind, initialised for the same number of slots; every call is made on    *)
(* all three with the same argument, and ret and val hold the three results *)
(* in the order generic_fifo, gfifo, CircularFifo.                          *)
(***************************************************************************)
InitSideBySide ==
  /\ variant = "side by side"
  /\ \E size \in GfifoSizes : \E buffer \in Arrays(size), buf \in Arrays(size) :
       fifo = [generic |-> generic_fifo_init(buffer, 0, size),
               gfifo |-> gfifo_init(buf, size),
               circular |-> CircularFifo(size - 1)]
  /\ heap = <<>> /\ NoCall

\* the three results of one call
Together(name, a, g, f, c) ==
  /\ fifo' = [generic |-> g.fifo, gfifo |-> f.fifo, circular |-> c.fifo]
  /\ op' = name /\ arg' = a
  /\ ret' = <<g.ret, f.ret, c.ret>> /\ val' = <<g.val, f.val, c.val>>
  /\ arr' = <<>> /\ oob' = (g.oob \/ f.oob \/ c.oob)
  /\ UNCHANGED <<variant, q, net>> /\ UNCHANGED apart

\* a call that yields a value and assigns nothing
Asked(name, g, f, c) ==
  /\ op' = name /\ arg' = NoVal /\ ret' = <<g, f, c>>
  /\ val' = <<NoVal, NoVal, NoVal>> /\ arr' = <<>> /\ oob' = FALSE
  /\ UNCHANGED <<variant, fifo, q, net>> /\ UNCHANGED apart

AllInsert ==
  /\ variant = "side by side"
  /\ \E v \in Values :
       Together("insert", v, generic_fifo_insert(fifo.generic, v),
                gfifo_insert(fifo.gfifo, v), CircularFifo_Insert(fifo.circular, v))

AllRemove ==
  /\ variant = "side by side"
  /\ Together("remove", NoVal, generic_fifo_remove(fifo.generic, Untouched, 0),
              gfifo_remove(fifo.gfifo, Untouched, 0),
              CircularFifo_Remove(fifo.circular, Untouched))

AllEmpty ==
  /\ variant = "side by side"
  /\ Asked("is_empty", generic_fifo_empty(fifo.generic), gfifo_empty(fifo.gfifo),
           IsEmpty(fifo.circular))

AllFull ==
  /\ variant = "side by side"
  /\ Asked("is_full", generic_fifo_full(fifo.generic), gfifo_full(fifo.gfifo),
           IsFull(fifo.circular))

AllCount ==
  /\ variant = "side by side"
  /\ Asked("count", generic_fifo_valid_count(fifo.generic),
           gfifo_vaild_count(fifo.gfifo), Count(fifo.circular))

NextSideBySide == AllInsert \/ AllRemove \/ AllEmpty \/ AllFull \/ AllCount

SpecSideBySide == InitSideBySide /\ [][NextSideBySide]_vars

(***************************************************************************)
(* C1.  Strict FIFO over single-element inserts and removes, in each of the *)
(* three restatements: a remove succeeds exactly when a successfully        *)
(* inserted value is still waiting, and it returns the oldest such value    *)
(* (so the k-th successful remove returns the value of the k-th successful  *)
(* insert, and insert-then-remove on an empty buffer returns the value).    *)
(***************************************************************************)
C1_FifoOrder ==
  [][op' \in RemoveOps =>
       /\ ret' = 1 <=> q # <<>>
       /\ ret' = 1 => val' = Head(q) /\ q' = Tail(q)]_vars

C1_Witness ==
  /\ op \in RemoveOps /\ ret = 1 /\ variant = "gfifo"
  /\ Wrapped(fifo) /\ Len(q) >= 2 /\ q[1] # q[2]

(***************************************************************************)
(* C2.  A successful gfifo_insert_array(values, n) leaves the previously    *)
(* held elements followed by values[0..n-1] in the buffer (as single        *)
(* removes hand them out), also when in + n reaches or crosses the end of   *)
(* the storage, and advances in by n modulo size.                           *)
(***************************************************************************)
C2_InsertArrayAppends ==
  [][(op' = "gfifo_insert_array" /\ ret' = 1) =>
       /\ Drain(fifo') = Drain(fifo) \o SubSeq(q', Len(q) + 1, Len(q'))
       /\ InOf(fifo') = (InOf(fifo) + arg') % Slots(fifo)]_vars

(***************************************************************************)
(* C3.  A successful gfifo_remove_array(out, n) stores in out[0..n-1] the   *)
(* values n consecutive gfifo_remove calls would have returned, in the same *)
(* positions, and leaves the buffer as those n removes would.               *)
(***************************************************************************)
C3_RemoveArrayAsRemoves ==
  [][(op' = "gfifo_remove_array" /\ ret' = 1) =>
       /\ arr' = DrainN(fifo, arg')
       /\ fifo' = AfterRemoves(fifo, arg')]_vars

(***************************************************************************)
(* C4.  For 0 <= index < count(), generic_fifo_select_index returns 1,      *)
(* yields the value the (index+1)-th subsequent remove would return, and    *)
(* changes nothing of the buffer, also when the held elements wrap.         *)
(***************************************************************************)
C4_SelectIndexLogical ==
  [][(op' = "generic_fifo_select_index" /\ arg' < CountOf(fifo)) =>
       /\ ret' = 1
       /\ val' = Drain(fifo)[arg' + 1]
       /\ fifo' = fifo]_vars

(***************************************************************************)
(* C5.  CircularFifo.GetValue returns false, with item and the buffer       *)
(* unchanged, for every index < 0 or >= Count(); it returns true only for   *)
(* 0 <= index < Count().                                                    *)
(***************************************************************************)
C5_GetValueValidates ==
  [][(op' = "CircularFifo.GetValue" /\ ~(0 <= arg' /\ arg' < Count(fifo))) =>
       /\ ret' = 0 /\ ~oob'
       /\ val' = Untouched
       /\ fifo' = fifo]_vars

(***************************************************************************)
(* C6.  Over single-element inserts and removes, count() is the number of   *)
(* successful inserts minus the number of successful removes and lies in    *)
(* 0 .. capacity_slots - 1, also when in is numerically below out.          *)
(***************************************************************************)
C6_CountIsNet ==
  /\ CountOf(fifo) = net
  /\ 0 <= CountOf(fifo) /\ CountOf(fifo) <= Slots(fifo) - 1

C6_Witness == Wrapped(fifo) /\ net >= 2 /\ op \in InsertOps /\ ret = 1

(***************************************************************************)
(* C7.  is_empty() iff count() = 0, is_full() iff count() = N - 1, never    *)
(* both for N >= 2; and from every empty buffer of N slots exactly N - 1    *)
(* consecutive inserts succeed and the N-th fails, after which exactly      *)
(* N - 1 removes succeed, returning the values in insertion order, and the  *)
(* N-th fails.                                                              *)
(***************************************************************************)
\* N values to insert, neighbours different
Fill(n) == [i \in 1 .. n |-> i % 2]

FillAndDrain(f) ==
  LET n == Slots(f)
      ins == InsertAll(f, Fill(n))
      rem == RemoveAllOf(ins.fifo, n)
  IN  /\ ins.rets = [i \in 1 .. n |-> IF i < n THEN 1 ELSE 0]
      /\ rem.rets = [i \in 1 .. n |-> IF i < n THEN 1 ELSE 0]
      /\ rem.vals = SubSeq(Fill(n), 1, n - 1)

C7_EmptyFullCount ==
  /\ EmptyOf(fifo) <=> CountOf(fifo) = 0
  /\ FullOf(fifo) <=> CountOf(fifo) = Slots(fifo) - 1
  /\ Slots(fifo) >= 2 => ~(EmptyOf(fifo) /\ FullOf(fifo))
  /\ EmptyOf(fifo) => FillAndDrain(fifo)

C7_Witness ==
  /\ variant = "gfifo" /\ Slots(fifo) >= 4
  /\ EmptyOf(fifo) /\ InOf(fifo) = Slots(fifo) - 1 /\ FillAndDrain(fifo)

(***************************************************************************)
(* C8.  When is_full() holds, a single-element insert returns the failure   *)
(* indicator and leaves cursors, count and every storage slot as they       *)
(* were; an insert adds at most one element.                                *)
(***************************************************************************)
C8_InsertOnFull ==
  [][op' \in InsertOps =>
       /\ FullOf(fifo) => (ret' = 0 /\ fifo' = fifo /\ ~oob')
       /\ CountOf(fifo') <= CountOf(fifo) + 1
       /\ ret' = 0 => fifo' = fifo]_vars

C8_Witness ==
  /\ op \in InsertOps /\ ret = 0 /\ FullOf(fifo)
  /\ Wrapped(fifo) /\ Slots(fifo) >= 3

(***************************************************************************)
(* C9.  When is_empty() holds, remove, peek and discard return the failure  *)
(* indicator, leave cursors and storage unchanged and do not write the      *)
(* caller's output value.                                                   *)
(***************************************************************************)
C9_RemoveOnEmpty ==
  [][(op' \in RemoveOps \cup PeekOps \cup DiscardOps /\ EmptyOf(fifo)) =>
       /\ ret' = 0 /\ ~oob'
       /\ fifo' = fifo
       /\ val' = Untouched]_vars

C9_Witness ==
  /\ variant = "gfifo" /\ op = "gfifo_peek" /\ ret = 0
  /\ EmptyOf(fifo) /\ InOf(fifo) # 0 /\ val = Untouched

UnusedOps == {"generic_fifo_unused_count", "CircularFifo.UnusedCount"}

\* how many single-element inserts succeed from f on before one fails
RECURSIVE RoomN(_, _)
RoomN(f, k) ==
  IF k = 0 THEN 0
  ELSE LET r == InsertOf(f, 0)
       IN  IF r.ret = 1 THEN 1 + RoomN(r.fifo, k - 1) ELSE 0

Room(f) == RoomN(f, Slots(f) + 1)

C11_UnusedCount ==
  op \in UnusedOps =>
    /\ ret = (Slots(fifo) - 1) - CountOf(fifo)
    /\ ret = 0 <=> FullOf(fifo)
    /\ ret = Room(fifo)

(***************************************************************************)
(* C12.  A construction with capacity zero (generic_fifo_init, gfifo_init,  *)
(* CircularFifo) or, for gfifo_init, with a size that is not a power of     *)
(* two, fails and yields no usable buffer: no later insert or remove        *)
(* operates on it (each returns failure, changes nothing of the structure   *)
(* and accesses no memory).                                                 *)
(***************************************************************************)
BadConfig(f) ==
  CASE variant = "generic_fifo" -> f.size = 0
    [] variant = "gfifo" -> f.size = 0 \/ ~IsPow2(f.size)
    [] OTHER -> f.capacity = 0

C12_BadConfigUnusable ==
  [][(BadConfig(fifo) /\ op' \in InsertOps \cup RemoveOps) =>
       /\ ret' = 0 /\ ~oob'
       /\ fifo' = fifo]_vars

(***************************************************************************)
(* C13.  generic_fifo_select_value(value) returns the smallest logical      *)
(* index (0 = oldest) of a held element equal to value, also when the held  *)
(* elements wrap; -1 when no held element equals value, whatever the slots  *)
(* outside the held range contain; and it changes nothing of the buffer.    *)
(***************************************************************************)
\* the positions (from 0) at which the held sequence has the value v
Hits(v) == {i \in 0 .. (Len(q) - 1) : q[i + 1] = v}

C13_SelectValue ==
  [][op' = "generic_fifo_select_value" =>
       /\ ret' = IF Hits(arg') = {} THEN 0 - 1
                 ELSE CHOOSE i \in Hits(arg') : \A j \in Hits(arg') : i <= j
       /\ fifo' = fifo]_vars

\* found as the newest element, in the part that wrapped to the storage's start
C13_Witness ==
  /\ op = "generic_fifo_select_value" /\ Wrapped(fifo)
  /\ ret = CountOf(fifo) - 1 /\ ret >= 1 /\ OutOf(fifo) + ret >= Slots(fifo)

(***************************************************************************)
(* C14.  generic_fifo_change(value, index) with 0 <= index < count()        *)
(* returns 1 and overwrites exactly the element at logical position index,  *)
(* also in the wrapped part: cursors, count and every other slot stay, and  *)
(* removes afterwards hand out the former sequence with position index      *)
(* replaced.  With index >= count() it returns 0 and changes nothing.       *)
(***************************************************************************)
C14_ChangeInPlace ==
  [][op' = "generic_fifo_change" =>
       IF arg' < CountOf(fifo)
       THEN /\ ret' = 1 /\ ~oob'
            /\ fifo' = [fifo EXCEPT !.buffer = fifo'.buffer]
            /\ \A i \in DOMAIN fifo.buffer :
                 i # (OutOf(fifo) + arg') % Slots(fifo) => fifo'.buffer[i] = fifo.buffer[i]
            /\ Drain(fifo') = [Drain(fifo) EXCEPT ![arg' + 1] = val']
       ELSE ret' = 0 /\ fifo' = fifo]_vars

\* the last held element, lying in the wrapped part, has just been replaced
C14_Witness ==
  /\ op = "generic_fifo_change" /\ ret = 1 /\ Wrapped(fifo)
  /\ arg = CountOf(fifo) - 1 /\ arg >= 1 /\ OutOf(fifo) + arg >= Slots(fifo)
  /\ q[arg + 1] = val /\ q[arg] # val

(***************************************************************************)
(* C15.  After any inserts and removes on a CircularFifo, also when the     *)
(* write cursor has wrapped (4 slots: insert 3, remove 2, insert 2),        *)
(* GetAll() returns an array of length Count() holding exactly the held     *)
(* elements, oldest first, and leaves cursors and storage as they were.     *)
(***************************************************************************)
C15_GetAllSnapshot ==
  [][op' = "CircularFifo.GetAll" =>
       /\ Len(arr') = Count(fifo) /\ ~oob'
       /\ arr' = q
       /\ arr' = Drain(fifo)
       /\ fifo' = fifo]_vars

\* 4 slots after insert 3, remove 2, insert 2: the three held elements lie in
\* slots 2, 3, 0
C15_Witness ==
  /\ op = "CircularFifo.GetAll" /\ fifo.size = 4
  /\ fifo.outIdx = 2 /\ fifo.inIdx = 1
  /\ Len(arr) = 3 /\ arr[1] # arr[2] /\ arr[2] # arr[3]

(***************************************************************************)
(* C16.  From any reachable state a reset (generic_fifo_reset, Clear)       *)
(* leaves count() = 0 and is_empty(), and the storage binding, the capacity *)
(* and every slot's content as they were; afterwards the buffer behaves as  *)
(* a freshly initialised one, and a remove returns only a value inserted    *)
(* after the reset.                                                         *)
(***************************************************************************)
ResetOps == {"generic_fifo_reset", "CircularFifo.Clear"}

\* the structure with both cursors at 0, whatever they were
Rewound(f) ==
  CASE variant = "generic_fifo" -> [f EXCEPT !.in_idx = 0, !.out_idx = 0]
    [] variant = "gfifo" -> [f EXCEPT !.in = 0, !.out = 0]
    [] OTHER -> [f EXCEPT !.inIdx = 0, !.outIdx = 0]

C16_ResetForgets ==
  [][/\ op' \in ResetOps =>
          /\ CountOf(fifo') = 0 /\ EmptyOf(fifo')
          /\ fifo' = Rewound(fifo)
          /\ Drain(fifo') = <<>> /\ FillAndDrain(fifo')
     /\ op' \in RemoveOps =>
          /\ ret' = 1 <=> q # <<>>
          /\ ret' = 1 => val' = Head(q)]_vars

\* a Clear of a buffer whose every slot has been written (the write cursor has
\* wrapped): the contents stay, the cursors are back at 0
C16_Witness ==
  /\ op = "CircularFifo.Clear" /\ fifo.size >= 3
  /\ \A i \in DOMAIN fifo.buffer : fifo.buffer[i] = 1
  /\ fifo.inIdx = 0 /\ fifo.outIdx = 0

(***************************************************************************)
(* C17.  On a non-empty buffer remove is peek followed by discard:          *)
(* gfifo_peek returns success with the value gfifo_remove would return (one *)
(* whole element) and leaves cursors and storage as they were; a discard    *)
(* (gfifo_throw, CircularFifo.Remove()) returns success and leaves the      *)
(* buffer as remove would leave it (read cursor one further modulo the slot *)
(* count, write cursor and storage unchanged).                              *)
(***************************************************************************)
C17_PeekThenDiscard ==
  [][~EmptyOf(fifo) =>
       /\ op' \in PeekOps =>
            /\ ret' = 1 /\ ~oob'
            /\ val' = RemoveOf(fifo).val /\ val' = Head(q)
            /\ fifo' = fifo
       /\ op' \in DiscardOps =>
            /\ ret' = 1 /\ ~oob'
            /\ fifo' = RemoveOf(fifo).fifo
            /\ OutOf(fifo') = (OutOf(fifo) + 1) % Slots(fifo)
            /\ InOf(fifo') = InOf(fifo)]_vars

(***************************************************************************)
(* C18.  CircularFifo.RemoveAll() does what Count() calls of Remove do: it  *)
(* returns an array of the length Count() had, holding the held elements in *)
(* FIFO order (the array GetAll() would have returned), and afterwards      *)
(* IsEmpty() holds and the write cursor is where it was.                    *)
(***************************************************************************)
C18_RemoveAllDrains ==
  [][op' = "CircularFifo.RemoveAll" =>
       /\ Len(arr') = Count(fifo) /\ ~oob'
       /\ arr' = DrainN(fifo, Count(fifo))
       /\ arr' = SeqOf(GetAll(fifo).arr)
       /\ arr' = q
       /\ fifo' = AfterRemoves(fifo, Count(fifo))
       /\ IsEmpty(fifo') /\ fifo'.inIdx = fifo.inIdx]_vars

\* three elements, lying across the end of the storage, have been handed out
C18_Witness ==
  /\ op = "CircularFifo.RemoveAll" /\ Len(arr) = 3 /\ fifo.size = 4
  /\ fifo.inIdx = 1 /\ fifo.outIdx = 1
  /\ arr[1] # arr[2] /\ arr[2] # arr[3]

(***************************************************************************)
(* C19.  Across init, insert, remove, generic_fifo_deinit and               *)
(* generic_fifo_free in any order: a region bound with user_buffer_flag 0   *)
(* is never freed; a region bound with flag 1 is freed by the first         *)
(* teardown call made while it is bound, the buffer reference is NULL       *)
(* whenever it has been freed, and no region is freed twice, however often  *)
(* the teardown calls are repeated.                                         *)
(***************************************************************************)
TeardownOps == {"generic_fifo_deinit", "generic_fifo_free"}

C19_OwnedFreedOnce ==
  [][/\ op' \in TeardownOps =>
          IF fifo.buffer # NULL /\ fifo.user_buffer_flag = 1
          THEN /\ heap'[Len(heap)].frees = heap[Len(heap)].frees + 1
               /\ fifo'.buffer = NULL
          ELSE heap' = heap
     /\ \A i \in 1 .. Len(heap') :
          /\ heap'[i].flag = 0 => heap'[i].frees = 0
          /\ heap'[i].frees <= 1
          /\ (i = Len(heap') /\ heap'[i].frees = 1) => fifo'.buffer = NULL]_vars

\* an owned region, bound after a borrowed one and used, has been freed by a
\* teardown call: freed once, the reference cleared, the borrowed one not freed
C19_Witness ==
  /\ op \in TeardownOps /\ Len(heap) = 2
  /\ heap[1] = [flag |-> 0, frees |-> 0]
  /\ heap[2] = [flag |-> 1, frees |-> 1]
  /\ fifo.buffer = NULL /\ fifo.in_idx # 0

(***************************************************************************)
(* C20.  One producer calling only insert and one consumer calling only     *)
(* remove, without a lock, their calls interleaved step by step (test of    *)
(* the cursors, copy of the element, assignment of the own cursor): every   *)
(* successful remove returns the oldest value inserted successfully and not *)
(* yet removed, so the consumer receives the inserted values in insertion   *)
(* order, none lost, none twice, none before the producer has written it;   *)
(* and whenever neither call is under way the buffer holds exactly the      *)
(* values not yet received.                                                 *)
(***************************************************************************)
C20_ProducerConsumer ==
  [][/\ (consumer.todo # <<>> /\ consumer'.todo = <<>>) =>
          /\ ret' = 1 /\ q # <<>>
          /\ val' = Head(q) /\ q' = Tail(q)
     /\ (producer'.todo = <<>> /\ consumer'.todo = <<>>) => Drain(fifo') = q'
     /\ Len(q') <= Slots(fifo') - 1]_vars

\* a remove has returned while an insert is between its copy and its cursor
\* assignment, more values waiting, the held elements across the storage's end
C20_Witness ==
  /\ op \in RemoveOps /\ ret = 1 /\ consumer.todo = <<>>
  /\ producer.todo = <<"cursor">>
  /\ Len(q) >= 1 /\ val # Head(q) /\ Wrapped(fifo)

(***************************************************************************)
(* C21.  One producer and one consumer without a lock: what a thread finds  *)
(* in the other thread's cursor is at worst out of date to the safe side.   *)
(* A remove may fail although an element has just been copied in, and an    *)
(* insert may fail although a slot has just been read out; but a remove is  *)
(* under way only while an element is held, an insert only while fewer than *)
(* capacity_slots - 1 are held, the slot the producer writes is never one   *)
(* of a held element, and the two threads are never about to copy to and    *)
(* from the same slot.                                                      *)
(***************************************************************************)
\* the slots of the held elements, from the read cursor on
HeldSlots(f) == {(OutOf(f) + k) % Slots(f) : k \in 0 .. (CountOf(f) - 1)}

C21_StalenessIsSafe ==
  /\ Len(q) = CountOf(fifo)
  /\ consumer.todo # <<>> => CountOf(fifo) >= 1
  /\ producer.todo # <<>> => CountOf(fifo) <= Slots(fifo) - 2
  /\ (producer.todo # <<>> /\ Head(producer.todo) = "copy") =>
       /\ InOf(fifo) \notin HeldSlots(fifo)
       /\ (consumer.todo # <<>> /\ Head(consumer.todo) = "copy") =>
            InOf(fifo) # OutOf(fifo)

\* a remove has failed on a buffer into which the element is already copied,
\* the write cursor not yet assigned
C21_Witness ==
  /\ op \in RemoveOps /\ ret = 0 /\ consumer.todo = <<>>
  /\ producer.todo = <<"cursor">> /\ EmptyOf(fifo)
  /\ SlotsOf(fifo)[InOf(fifo)] = producer.v /\ InOf(fifo) # 0

(***************************************************************************)
(* C22.  Whatever operations have run on a validly initialised buffer,      *)
(* both cursors are indices of the storage:                                 *)
(* 0 <= write cursor < capacity_slots and 0 <= read cursor < capacity_slots.*)
(***************************************************************************)
C22_CursorsInRange ==
  /\ InOf(fifo) \in 0 .. (Slots(fifo) - 1)
  /\ OutOf(fifo) \in 0 .. (Slots(fifo) - 1)

\* a bulk insert of two elements that ends at the last slot: the write cursor
\* is back at 0, behind the read cursor
C22_Witness ==
  /\ op = "gfifo_insert_array" /\ ret = 1 /\ arg = 2
  /\ InOf(fifo) = 0 /\ OutOf(fifo) = 2 /\ Slots(fifo) = 4

(***************************************************************************)
(* C23.  Each side changes only what is its own.  An insert, single or      *)
(* bulk, leaves the read cursor alone and changes no storage slot other     *)
(* than those it fills, the slots from the write cursor on.  A remove, a    *)
(* discard, a bulk remove and a remove-all leave the write cursor and every *)
(* storage slot alone, so a removed slot keeps its content.  The count,     *)
(* peek, indexed read, snapshot and find calls change nothing of the        *)
(* structure.                                                               *)
(***************************************************************************)
StorageOf(f) == IF variant = "gfifo" THEN f.data ELSE f.buffer

InsertFamily == InsertOps \cup {"gfifo_insert_array"}
RemoveFamily ==
  RemoveOps \cup DiscardOps \cup {"gfifo_remove_array", "CircularFifo.RemoveAll"}
ReadFamily ==
  UnusedOps \cup PeekOps \cup
  {"generic_fifo_select_index", "CircularFifo.GetValue", "CircularFifo.GetAll",
   "generic_fifo_select_value"}

\* the slots an insert call that returned r with argument a has filled
FilledSlots(f, name, r, a) ==
  LET n == IF r # 1 THEN 0 ELSE IF name = "gfifo_insert_array" THEN a ELSE 1
  IN  {(InOf(f) + k) % Slots(f) : k \in 0 .. (n - 1)}

C23_FrameEffects ==
  [][/\ op' \in InsertFamily =>
          /\ OutOf(fifo') = OutOf(fifo)
          /\ \A i \in 0 .. (Slots(fifo) - 1) :
               i \notin FilledSlots(fifo, op', ret', arg') =>
                 StorageOf(fifo')[i] = StorageOf(fifo)[i]
     /\ op' \in RemoveFamily =>
          /\ InOf(fifo') = InOf(fifo)
          /\ StorageOf(fifo') = StorageOf(fifo)
     /\ op' \in ReadFamily => fifo' = fifo]_vars

\* a bulk remove has taken the two elements of slots 3 and 0; both slots
\* still hold the removed 1s
C23_Witness ==
  /\ op = "gfifo_remove_array" /\ ret = 1 /\ arg = 2 /\ arr = <<1, 1>>
  /\ Slots(fifo) = 4 /\ OutOf(fifo) = 1 /\ InOf(fifo) = 1
  /\ StorageOf(fifo)[3] = 1 /\ StorageOf(fifo)[0] = 1

(***************************************************************************)
(* C24.  An operation that returns success has accessed only slots          *)
(* 0 .. capacity_slots - 1 of the storage.  A single or bulk insert writes  *)
(* only slots that hold no live element; a remove, a peek, an indexed read  *)
(* or write, a find, and both segments of a bulk copy that is split at the  *)
(* end of the storage stay inside the storage, also when the held elements  *)
(* lie across its end.                                                      *)
(***************************************************************************)
\* the two branches of the bulk copies: some storage slot of the copy that
\* starts at cursor at and has len elements lies outside data
gfifo_array_outside(f, at, len) ==
  IF at + len < f.size
  THEN Outside(f.data, at, len)
  ELSE Outside(f.data, at, f.size - at) \/ Outside(f.data, 0, len - (f.size - at))

IndexedOps == {"generic_fifo_select_index", "generic_fifo_change", "CircularFifo.GetValue"}

C24_InsertsWriteFreeSlots ==
  [][/\ (op' \in InsertOps /\ ret' = 1) =>
          ~oob' /\ InOf(fifo) \notin HeldSlots(fifo)
     /\ (op' = "gfifo_insert_array" /\ ret' = 1) =>
          /\ ~gfifo_array_outside(fifo, fifo.in, arg')
          /\ FilledSlots(fifo, op', ret', arg') \cap HeldSlots(fifo) = {}]_vars

C24_CopiesInside ==
  [][/\ (op' = "gfifo_remove_array" /\ ret' = 1) =>
          ~gfifo_array_outside(fifo, fifo.out, arg')
     /\ (op' \in RemoveOps \cup PeekOps \cup {"generic_fifo_change", "CircularFifo.GetValue"}
           /\ ret' = 1) => ~oob'
     /\ (op' = "generic_fifo_select_value" /\ ret' >= 0) => ~oob']_vars

C24_AccessesInside ==
  /\ C24_InsertsWriteFreeSlots
  /\ C24_CopiesInside
  /\ [][(op' \in IndexedOps /\ ret' = 1) => ~oob']_vars

(***************************************************************************)
(* C25.  The three restatements are one queue.  Initialised for the same    *)
(* power-of-two number N of slots (CircularFifo with capacity N - 1) and    *)
(* given the same insert, remove, is_empty, is_full and count calls, gfifo, *)
(* generic_fifo and CircularFifo return the same result at every call, the  *)
(* same removed element, and have the same cursor values after it.          *)
(***************************************************************************)
C25_SameQueue ==
  /\ fifo.generic.in_idx = fifo.gfifo.in /\ fifo.gfifo.in = fifo.circular.inIdx
  /\ fifo.generic.out_idx = fifo.gfifo.out /\ fifo.gfifo.out = fifo.circular.outIdx
  /\ op # "init" =>
       /\ ret[1] = ret[2] /\ ret[2] = ret[3]
       /\ val[1] = val[2] /\ val[2] = val[3]

\* an insert into the last of four slots: mask and remainder both take the
\* write cursor back to 0, behind the read cursor, and the count is 2
C25_Witness ==
  /\ op = "insert" /\ ret = <<1, 1, 1>>
  /\ fifo.gfifo.size = 4 /\ fifo.gfifo.in = 0 /\ fifo.gfifo.out = 2
  /\ fifo.generic.in_idx = 0 /\ fifo.circular.inIdx = 0
  /\ gfifo_vaild_count(fifo.gfifo) = 2 /\ Count(fifo.circular) = 2

====
